---- MODULE Spec2Model ----
(***************************************************************************)
(* Model of the NEXUS-HYBRID backend's progress registry                   *)
(* (backend/utils/progress_stream.py), the stream endpoint that consumes   *)
(* it (backend/main.py) and the document pipeline                          *)
(* (backend/agents/manager.py).                                            *)
(*                                                                         *)
(* Scheduling is asyncio's: one event loop, cooperative tasks.  A task     *)
(* runs until it awaits something that really suspends.  Acquiring an      *)
(* uncontended asyncio.Lock and putting on an unbounded asyncio.Queue     *)
(* never suspend, so every ProgressManager method runs atomically up to    *)
(* its asyncio.gather; gather wraps each put in a task, and tasks run in   *)
(* the order they were scheduled (call_soon is FIFO).                      *)
(***************************************************************************)
EXTENDS Integers, Sequences, FiniteSets, TLC

\* ------------------------------------------------------------------ bounds
MaxCalls == 3
MaxSubscribers == 2
MaxDocs == 3
MaxTasksSetting == 2
MaxFailures == 1
MaxItens == 2

\* core/settings.py: the default of MAX_CONCURRENT_TASKS
DefaultMaxConcurrentTasks == 8

\* manager.py line 81: asyncio.Semaphore(3)
InnerCapacity == 3

Jobs == {"j1"}
Handlers == 1..MaxSubscribers
OutcomeStatus == {"completed", "failed"}

VARIABLES
    queues,     \* ProgressManager._queues: job -> list of subscriber queues
    results,    \* ProgressManager._results: job -> cached result
    history,    \* ProgressManager._history: job -> list of events
    closed,     \* ProgressManager._closed: set of job ids
    chan,       \* the items put on each subscriber's asyncio.Queue, in order
    hstate,     \* position of each stream_pipeline_job request
    hjob,       \* job id each request was made for
    ready,      \* event loop: the gathers of queue.put tasks not yet run
    nCalls      \* calls of create_job, publish and finalize so far (bounded)

pmVars == <<queues, results, history, closed, chan, hstate, hjob, ready, nCalls>>

VARIABLES
    docs,                \* the batch handed to process_documents_pipeline
    maxConcurrentTasks,  \* settings.MAX_CONCURRENT_TASKS
    semValue,            \* free slots of the batch semaphore
    dpc,                 \* position of each _process_single_document task
    stage,               \* state of each document's three stage tasks
    innerSem,            \* free slots of each document's semaphore_inner
    events,              \* doc_log["events"] of each document
    ocrCalls,            \* invocations of run_ocr for each document
    finishOrder,         \* documents in the order their tasks returned
    nFailures,           \* collaborator calls that raised so far (bounded)
    ppc,                 \* position of process_documents_pipeline
    perror,              \* the exception it raised
    reports, logs        \* the lists it returned

pipeVars == <<docs, maxConcurrentTasks, semValue, dpc, stage, innerSem, events,
              ocrCalls, finishOrder, nFailures, ppc, perror, reports, logs>>

VARIABLES
    jpc,        \* position of each job's _run_pipeline_job task
    jdocs       \* len(docs) of each job

jobVars == <<jpc, jdocs>>

VARIABLES
    oreq,       \* the documents of the /orchestrate request being served
    oasync,     \* its async flag
    opc,        \* position of the orchestrate handler
    itens,      \* data.itens of the document handed to compute
    regime,     \* data.metadata.regime of that document
    destinatario, \* data.destinatario of that document
    computed    \* status of the contabilidade stage compute ran in

auxVars == <<oreq, oasync, opc, itens, regime, destinatario, computed>>

vars == <<pmVars, pipeVars, jobVars, auxVars>>

\* ----------------------------------------------------------------- helpers
Range(s) == {s[i] : i \in DOMAIN s}

\* dict[k] = v
DictSet(d, k, v) == [x \in DOMAIN d \cup {k} |-> IF x = k THEN v ELSE d[x]]

\* dict.pop(k, None)
DictPop(d, k) == [x \in DOMAIN d \ {k} |-> d[x]]

\* dict.get(k, default)
DictGet(d, k, default) == IF k \in DOMAIN d THEN d[k] ELSE default

RECURSIVE SeqRemove(_, _)
\* list.remove(x): drops the first occurrence (the list unchanged when absent)
SeqRemove(s, x) ==
    IF s = <<>> THEN <<>>
    ELSE IF Head(s) = x THEN Tail(s)
    ELSE <<Head(s)>> \o SeqRemove(Tail(s), x)

\* ------------------------------------------------------------------ events
\* the stream-end marker (None in the source)
None == [type |-> "end", status |-> "none", job |-> "", seq |-> 0, error |-> ""]

\* the dict finalize builds
ClosingEvent(j) ==
    [type |-> "job", status |-> "closed", job |-> j, seq |-> 0, error |-> ""]

\* the event handed to publish by the n-th call
CallerEvent(j, n) ==
    [type |-> "stage", status |-> "completed", job |-> j, seq |-> n, error |-> ""]

\* ------------------------------------------------------- ProgressManager
\* a subscribe that treats a closed job as unknown
JobKnownOpenOnly(j) == j \in DOMAIN history /\ j \notin closed

\* subscribe, line 33
JobKnown(j) == j \in DOMAIN history

\* a subscribe that replays nothing
ReplaySnapshotNoReplay(j) == <<>>

\* subscribe, line 39: the copy of the history that is replayed
ReplaySnapshot(j) == DictGet(history, j, <<>>)

\* subscribe, lines 42-46: what is put on the fresh queue before it is returned
ReplayItems(j) ==
    ReplaySnapshot(j) \o (IF j \in closed THEN <<None>> ELSE <<>>)

\* publish line 56 and finalize line 75: the subscribers an event is sent to
Watchers(j) == DictGet(queues, j, <<>>)

\* put tasks that run before the ones scheduled earlier
ScheduleFirst(r, qs, item, marker) ==
    IF qs = <<>> THEN r
    ELSE <<[qs |-> qs, item |-> item, marker |-> marker]>> \o r

\* asyncio.gather(*(queue.put(item) for queue in queues)): the put tasks are
\* scheduled behind everything already scheduled
Schedule(r, qs, item, marker) ==
    IF qs = <<>> THEN r
    ELSE Append(r, [qs |-> qs, item |-> item, marker |-> marker])

\* a discard that drops every channel of the job
DiscardQueueAll(qmap, j, q) ==
    IF DictGet(qmap, j, <<>>) = <<>> THEN qmap
    ELSE DictSet(qmap, j, <<>>)

\* the registry part of discard(job_id, queue)
DiscardQueue(qmap, j, q) ==
    IF DictGet(qmap, j, <<>>) = <<>> THEN qmap
    ELSE DictSet(qmap, j, SeqRemove(qmap[j], q))

\* a set_result that stores nothing
StoreResultSkipped(res, j, r) == res

\* set_result line 62: self._results[job_id] = result
StoreResult(res, j, r) == DictSet(res, j, r)

\* a create_job that leaves the cached result of a reused id in place
StaleResultKept(res, j) == res

\* create_job line 27: the cached result of a reused id is dropped
StaleResultDropped(res, j) == DictPop(res, j)

CreateJob(j) ==
    /\ nCalls < MaxCalls
    /\ nCalls' = nCalls + 1
    /\ queues' = DictSet(queues, j, <<>>)
    /\ history' = DictSet(history, j, <<>>)
    /\ closed' = closed \ {j}
    /\ results' = StaleResultDropped(results, j)
    /\ UNCHANGED <<chan, hstate, hjob, ready,
                   pipeVars, jobVars, auxVars>>

\* publish lines 52-55 and finalize lines 72-74: the event joins the history of
\* a job that has one
HistoryAfter(hist, j, e) ==
    IF j \in DOMAIN hist THEN [hist EXCEPT ![j] = Append(@, e)] ELSE hist

Publish(j) ==
    /\ nCalls < MaxCalls
    /\ nCalls' = nCalls + 1
    /\ IF j \notin DOMAIN history
       THEN UNCHANGED <<history, ready>>
       ELSE /\ history' = HistoryAfter(history, j, CallerEvent(j, nCalls + 1))
            /\ ready' = Schedule(ready, Watchers(j), CallerEvent(j, nCalls + 1), FALSE)
    /\ UNCHANGED <<queues, results, closed, chan, hstate, hjob,
                   pipeVars, jobVars, auxVars>>

SetResult(j, r) ==
    /\ results' = StoreResult(results, j, r)
    /\ results' # results
    /\ UNCHANGED <<queues, history, closed, chan, hstate, hjob, ready, nCalls,
                   pipeVars, jobVars, auxVars>>

Finalize(j) ==
    /\ nCalls < MaxCalls
    /\ nCalls' = nCalls + 1
    /\ history' = HistoryAfter(history, j, ClosingEvent(j))
    /\ closed' = closed \cup {j}
    /\ ready' = Schedule(ready, Watchers(j), ClosingEvent(j), TRUE)
    /\ UNCHANGED <<queues, results, chan, hstate, hjob,
                   pipeVars, jobVars, auxVars>>

\* discard(job_id) without a queue
DiscardJob(j) ==
    /\ j \in DOMAIN queues \cup DOMAIN history \cup DOMAIN results \cup closed
    /\ queues' = DictPop(queues, j)
    /\ history' = DictPop(history, j)
    /\ results' = DictPop(results, j)
    /\ closed' = closed \ {j}
    /\ UNCHANGED <<chan, hstate, hjob, ready, nCalls,
                   pipeVars, jobVars, auxVars>>

Forget(j) ==
    /\ j \in DOMAIN queues \cup DOMAIN history \cup DOMAIN results \cup closed
    /\ results' = DictPop(results, j)
    /\ history' = DictPop(history, j)
    /\ queues' = DictPop(queues, j)
    /\ closed' = closed \ {j}
    /\ UNCHANGED <<chan, hstate, hjob, ready, nCalls,
                   pipeVars, jobVars, auxVars>>

\* subscribe line 36: asyncio.Queue() is built with the default maxsize, 0,
\* which means no limit
QueueMaxsize == 0

\* a channel that takes one item and is full until its subscriber reads
QueueFullAtOne(q) == Len(chan[q]) >= 1

\* asyncio.Queue.full(), for a subscriber that reads nothing: put waits while
\* it holds
QueueFull(q) == QueueMaxsize > 0 /\ Len(chan[q]) >= QueueMaxsize

\* one gather of put tasks runs; after finalize's first gather (the closing
\* event) the method resumes and schedules the second (the marker)
RunPuts ==
    /\ ready # <<>>
    /\ \A q \in Range(Head(ready).qs) : ~QueueFull(q)
    /\ LET b == Head(ready) IN
        /\ chan' = [q \in DOMAIN chan |->
                      IF q \in Range(b.qs) THEN Append(chan[q], b.item) ELSE chan[q]]
        /\ ready' = IF b.marker
                    THEN Schedule(Tail(ready), b.qs, None, FALSE)
                    ELSE Tail(ready)
    /\ UNCHANGED <<queues, results, history, closed, hstate, hjob, nCalls,
                   pipeVars, jobVars, auxVars>>

\* --------------------------------------------------- GET /pipeline/jobs/{id}/stream
\* stream_pipeline_job: subscribe, 404 on none, else start streaming
\* (requests are numbered in the order they arrive)
StreamPipelineJob(h, j) ==
    /\ hstate[h] = "idle"
    /\ \A g \in Handlers : g < h => hstate[g] # "idle"
    /\ hjob' = [hjob EXCEPT ![h] = j]
    /\ IF ~JobKnown(j)
       THEN /\ hstate' = [hstate EXCEPT ![h] = "404"]
            /\ UNCHANGED <<queues, chan>>
       ELSE /\ queues' = DictSet(queues, j, Append(Watchers(j), h))
            /\ chan' = [chan EXCEPT ![h] = ReplayItems(j)]
            /\ hstate' = [hstate EXCEPT ![h] = "streaming"]
    /\ UNCHANGED <<results, history, closed, ready, nCalls,
                   pipeVars, jobVars, auxVars>>

\* event_generator: the loop of queue.get() reads the items in the order they
\* were put; once it has read the marker it breaks and the finally clause
\* discards the queue
GeneratorEnd(h) ==
    /\ hstate[h] = "streaming"
    /\ None \in Range(chan[h])
    /\ hstate' = [hstate EXCEPT ![h] = "done"]
    /\ queues' = DiscardQueue(queues, hjob[h], h)
    /\ UNCHANGED <<results, history, closed, chan, hjob, ready, nCalls,
                   pipeVars, jobVars, auxVars>>

\* the client goes away: the generator is closed and its finally clause runs
ClientDisconnect(h) ==
    /\ hstate[h] = "streaming"
    /\ hstate' = [hstate EXCEPT ![h] = "done"]
    /\ queues' = DiscardQueue(queues, hjob[h], h)
    /\ UNCHANGED <<results, history, closed, chan, hjob, ready, nCalls,
                   pipeVars, jobVars, auxVars>>

\* ------------------------------------------------------- the registry lock
RegistryMethods ==
    {"create_job", "subscribe", "publish", "set_result", "finalize", "discard", "forget"}

\* the methods whose body runs under `async with self._lock` (lines 22, 32, 51,
\* 70 and 87); set_result and forget are plain functions that never take it
LockedMethods == {"create_job", "subscribe", "publish", "finalize", "discard"}

\* the step is the registry part of a call of method m
StepOf(m) ==
    CASE m = "create_job" -> \E j \in Jobs : CreateJob(j)
      [] m = "subscribe" -> \E h \in Handlers, j \in Jobs : StreamPipelineJob(h, j)
      [] m = "publish" -> \E j \in Jobs : Publish(j)
      [] m = "set_result" -> \E j \in Jobs, r \in OutcomeStatus : SetResult(j, r)
      [] m = "finalize" -> \E j \in Jobs : Finalize(j)
      [] m = "discard" -> \/ \E j \in Jobs : DiscardJob(j)
                          \/ \E h \in Handlers : GeneratorEnd(h) \/ ClientDisconnect(h)
      [] m = "forget" -> \E j \in Jobs : Forget(j)

\* ------------------------------------------------------ the job API (main.py)
\* the ids uuid4 hands out, in the order it hands them out
JobSeq == <<"j1", "j2">>

JobIds == Range(JobSeq)

\* manager.py line 166: the parameters of process_documents_pipeline
PipelineParameters == {"docs"}

\* main.py lines 374-378: the arguments _run_pipeline_job calls it with
JobCallArguments == {"docs", "progress_callback", "job_id"}

\* a call with an argument the function has no parameter for raises TypeError
\* before the function body runs
CallBinds == JobCallArguments \subseteq PipelineParameters

\* str(exc) in the except clause (lines 390-401): the message of the TypeError
\* of a call that does not bind, else that of the exception of the pipeline
JobError ==
    IF CallBinds THEN "pipeline failed"
    ELSE "process_documents_pipeline() got an unexpected keyword argument 'progress_callback'"

\* a job task that announces its start again instead of its outcome
JobEventStartedOnly(j, status) ==
    [type |-> "job", status |-> "started", job |-> j, seq |-> 0, error |-> ""]

\* the dicts _run_pipeline_job publishes: type job, status started, completed
\* or failed, and the error message with status failed
JobEvent(j, status) ==
    [type |-> "job", status |-> status, job |-> j, seq |-> 0,
     error |-> IF status = "failed" THEN JobError ELSE ""]

\* a payload that leaves the error message out
ResultPayloadStatusOnly(st) == [status |-> st, error |-> ""]

\* the payloads handed to set_result (lines 379 and 401)
ResultPayload(st) == [status |-> st, error |-> IF st = "failed" THEN JobError ELSE ""]

\* the status of the job event published after the call (lines 373-401): the
\* except clause catches the TypeError; a call that binds returns or raises
JobOutcomes == IF CallBinds THEN {"completed", "failed"} ELSE {"failed"}

\* a task that is never woken by its gather
GatherDoneNever(j) == FALSE

\* the task has no gather of puts of its own outstanding
GatherDone(j) == \A i \in DOMAIN ready : ready[i].item.job # j

\* set_result and finalize (lines 389 or 401, and 403)
JobFinish(j, st, hist) ==
    /\ results' = StoreResult(results, j, ResultPayload(st))
    /\ history' = HistoryAfter(hist, j, ClosingEvent(j))
    /\ closed' = closed \cup {j}
    /\ ready' = Schedule(ready, Watchers(j), ClosingEvent(j), TRUE)

\* len(docs) of a job: create_pipeline_job refuses an empty upload
JobBatchSizes == {1, 2}

\* POST /pipeline/jobs: a fresh id, create_job, and the task is created
CreatePipelineJob(i, n) ==
    /\ jpc[JobSeq[i]] = "none"
    /\ \A k \in 1..(i - 1) : jpc[JobSeq[k]] # "none"
    /\ LET j == JobSeq[i] IN
        /\ queues' = DictSet(queues, j, <<>>)
        /\ history' = DictSet(history, j, <<>>)
        /\ closed' = closed \ {j}
        /\ results' = StaleResultDropped(results, j)
        /\ jpc' = [jpc EXCEPT ![j] = "launched"]
        /\ jdocs' = [jdocs EXCEPT ![j] = n]
    /\ UNCHANGED <<chan, hstate, hjob, ready, nCalls, pipeVars, auxVars>>

\* the first step of _run_pipeline_job.  publish suspends only in its gather,
\* that is when the job has subscribers; with none the task runs on, through
\* the call and the second publish, to the end of finalize
RunPipelineJobStart(j) ==
    /\ jpc[j] = "launched"
    /\ IF Watchers(j) = <<>>
       THEN \E st \in JobOutcomes :
            /\ JobFinish(j, st, HistoryAfter(HistoryAfter(history, j, JobEvent(j, "started")),
                                             j, JobEvent(j, st)))
            /\ jpc' = [jpc EXCEPT ![j] = "done"]
       ELSE /\ history' = HistoryAfter(history, j, JobEvent(j, "started"))
            /\ ready' = Schedule(ready, Watchers(j), JobEvent(j, "started"), FALSE)
            /\ jpc' = [jpc EXCEPT ![j] = "started"]
            /\ UNCHANGED <<results, closed>>
    /\ UNCHANGED <<queues, chan, hstate, hjob, nCalls, jdocs, pipeVars, auxVars>>

\* the task is resumed after the gather of the started event: the call of
\* process_documents_pipeline and the publish of its outcome
RunPipelineJobCall(j) ==
    /\ jpc[j] = "started"
    /\ GatherDone(j)
    /\ \E st \in JobOutcomes :
        IF Watchers(j) = <<>>
        THEN /\ JobFinish(j, st, HistoryAfter(history, j, JobEvent(j, st)))
             /\ jpc' = [jpc EXCEPT ![j] = "done"]
        ELSE /\ history' = HistoryAfter(history, j, JobEvent(j, st))
             /\ ready' = Schedule(ready, Watchers(j), JobEvent(j, st), FALSE)
             /\ jpc' = [jpc EXCEPT ![j] = st]
             /\ UNCHANGED <<results, closed>>
    /\ UNCHANGED <<queues, chan, hstate, hjob, nCalls, jdocs, pipeVars, auxVars>>

\* the task is resumed after the gather of the outcome event: set_result and,
\* in the finally clause, finalize
RunPipelineJobFinish(j) ==
    /\ jpc[j] \in {"completed", "failed"}
    /\ GatherDone(j)
    /\ JobFinish(j, jpc[j], history)
    /\ jpc' = [jpc EXCEPT ![j] = "done"]
    /\ UNCHANGED <<queues, chan, hstate, hjob, nCalls, jdocs, pipeVars, auxVars>>

\* ------------------------------------------------- agents/manager.py
\* The collaborators are called as the source calls them: run_ocr, audit and
\* compute contain no await, so their stage runs to its end inside one step of
\* the task that calls them; classify awaits loop.run_in_executor and is
\* resumed when the executor thread is done.  The three stage tasks of a
\* document are created together and so take their first step one after the
\* other, in creation order, with no other task in between.
DocKinds == {"PDF", "IMAGE", "NFE_XML"}
StageNames == {"auditoria", "classificacao", "contabilidade"}

DocIds == 1..Len(docs)

Max(a, b) == IF a >= b THEN a ELSE b

\* manager.py line 163
ASYNC_BATCH_SIZE == Max(1, maxConcurrentTasks)

\* a gate that never closes
SemaphoreLockedNever(v) == FALSE

\* asyncio.Semaphore.locked(): acquire waits while no slot is free
SemaphoreLocked(v) == v <= 0

\* a scope that keeps the slot it took
SemaphoreReleaseLost(v) == v

\* asyncio.Semaphore.release(), which `async with` runs on every way out of
\* its block
SemaphoreRelease(v) == v + 1

\* an extraction branch that forgets images
NeedsOcrPdfOnly(kind) == kind = "PDF"

\* line 99
NeedsOcr(kind) == kind \in {"PDF", "IMAGE"}

\* StageLog.to_dict, the fields the claims read; error is details["error"] and
\* reason is details["reason"]
StageEntry(name, status, error, reason) ==
    [stage |-> name, status |-> status, error |-> error, reason |-> reason]

\* the message of the exception a collaborator raises
ErrorOf(name) == name \o " failed"

\* a _run_stage without its except clause: the status is left as it started
RunStageEntryRunning(name, ok) ==
    IF ok THEN StageEntry(name, "completed", "", "")
    ELSE StageEntry(name, "running", "", "")

\* _run_stage: the entry appended by its finally clause
RunStageEntry(name, ok) ==
    IF ok THEN StageEntry(name, "completed", "", "")
    ELSE StageEntry(name, "failed", ErrorOf(name), "")

\* lines 103-111
SkippedEntry == StageEntry("ocr", "skipped", "", "document-type")

NoStages == [s \in StageNames |-> "none"]

\* a collaborator call returns or raises (it raises at most MaxFailures times
\* in a run)
Outcomes(n) == IF nFailures + n <= MaxFailures THEN BOOLEAN ELSE {TRUE}

Failed(ok) == IF ok THEN 0 ELSE 1

StageStatus(ok) == IF ok THEN "completed" ELSE "failed"

\* the exception asyncio.gather hands to the document: that of the first stage
\* task that failed
FirstError(st) ==
    IF st["auditoria"] = "failed" THEN ErrorOf("auditoria")
    ELSE IF st["contabilidade"] = "failed" THEN ErrorOf("contabilidade")
    ELSE ErrorOf("classificacao")

\* results collected in the order the documents finished
GatherByCompletion(order) == order

\* asyncio.gather: the results come in the order of the awaitables
GatherResults(order) == [i \in 1..Len(order) |-> i]

\* process_documents_pipeline up to its await: the semaphore is created and
\* one task per document is scheduled
PipelineStart ==
    /\ ppc = "idle"
    /\ ppc' = "gather"
    /\ semValue' = ASYNC_BATCH_SIZE
    /\ dpc' = [d \in DocIds |-> "new"]
    /\ UNCHANGED <<docs, maxConcurrentTasks, stage, innerSem, events, ocrCalls,
                   finishOrder, nFailures, perror, reports, logs, pmVars, jobVars, auxVars>>

\* _process_single_document from the acquisition of a batch slot to its gather
\* (the tasks reach the semaphore in the order of the batch and asyncio wakes
\* the waiters of a semaphore first come, first served):
\* the extraction stage (or its skipped event), then the three stage tasks are
\* created; a failing extraction leaves the function and gives the slot back
DocStart(d) ==
    /\ dpc[d] = "new"
    /\ \A e \in DocIds : e < d => dpc[e] # "new"
    /\ ~SemaphoreLocked(semValue)
    /\ IF NeedsOcr(docs[d].kind)
       THEN \E ok \in Outcomes(1) :
            /\ nFailures' = nFailures + Failed(ok)
            /\ ocrCalls' = [ocrCalls EXCEPT ![d] = @ + 1]
            /\ events' = [events EXCEPT ![d] = Append(@, RunStageEntry("ocr", ok))]
            /\ IF ok
               THEN /\ dpc' = [dpc EXCEPT ![d] = "joined"]
                    /\ stage' = [stage EXCEPT ![d] = [s \in StageNames |-> "scheduled"]]
                    /\ semValue' = semValue - 1
               ELSE /\ dpc' = [dpc EXCEPT ![d] = "failed"]
                    /\ semValue' = SemaphoreRelease(semValue - 1)
                    /\ UNCHANGED stage
       ELSE /\ events' = [events EXCEPT ![d] = Append(@, SkippedEntry)]
            /\ dpc' = [dpc EXCEPT ![d] = "joined"]
            /\ stage' = [stage EXCEPT ![d] = [s \in StageNames |-> "scheduled"]]
            /\ semValue' = semValue - 1
            /\ UNCHANGED <<ocrCalls, nFailures>>
    /\ UNCHANGED <<docs, maxConcurrentTasks, innerSem, finishOrder, ppc, perror,
                   reports, logs, pmVars, jobVars, auxVars>>

\* the first steps of the three stage tasks: audit runs and logs its event,
\* classify takes a slot of semaphore_inner and hands its work to the executor,
\* compute runs and logs its event
StageTasksRun(d) ==
    /\ stage[d]["auditoria"] = "scheduled"
    /\ \E aok \in Outcomes(1), cok \in Outcomes(1) :
        /\ Failed(aok) + Failed(cok) <= MaxFailures - nFailures
        /\ nFailures' = nFailures + Failed(aok) + Failed(cok)
        /\ stage' = [stage EXCEPT ![d] =
                        [auditoria |-> StageStatus(aok),
                         classificacao |-> "running",
                         contabilidade |-> StageStatus(cok)]]
        /\ events' = [events EXCEPT ![d] =
                        @ \o <<RunStageEntry("auditoria", aok),
                               RunStageEntry("contabilidade", cok)>>]
    /\ innerSem' = [innerSem EXCEPT ![d] = @ - 1]
    /\ UNCHANGED <<docs, maxConcurrentTasks, semValue, dpc, ocrCalls, finishOrder,
                   ppc, perror, reports, logs, pmVars, jobVars, auxVars>>

\* the executor is done: the classify stage task is resumed, logs its event and
\* gives its slot of semaphore_inner back
ClassifyFinish(d) ==
    /\ stage[d]["classificacao"] = "running"
    /\ \E ok \in Outcomes(1) :
        /\ nFailures' = nFailures + Failed(ok)
        /\ stage' = [stage EXCEPT ![d]["classificacao"] = StageStatus(ok)]
        /\ events' = [events EXCEPT ![d] = Append(@, RunStageEntry("classificacao", ok))]
    /\ innerSem' = [innerSem EXCEPT ![d] = SemaphoreRelease(@)]
    /\ UNCHANGED <<docs, maxConcurrentTasks, semValue, dpc, ocrCalls, finishOrder,
                   ppc, perror, reports, logs, pmVars, jobVars, auxVars>>

\* _process_single_document is resumed by its gather (lines 122-124): with the
\* first exception of a stage task as soon as one has failed, with the three
\* results once all have completed; either way the batch slot is given back
DocResume(d) ==
    /\ dpc[d] = "joined"
    /\ stage[d]["auditoria"] # "scheduled"
    /\ IF \E s \in StageNames : stage[d][s] = "failed"
       THEN /\ dpc' = [dpc EXCEPT ![d] = "failed"]
            /\ UNCHANGED finishOrder
       ELSE /\ \A s \in StageNames : stage[d][s] = "completed"
            /\ dpc' = [dpc EXCEPT ![d] = "done"]
            /\ finishOrder' = Append(finishOrder, d)
    /\ semValue' = SemaphoreRelease(semValue)
    /\ UNCHANGED <<docs, maxConcurrentTasks, stage, innerSem, events, ocrCalls,
                   nFailures, ppc, perror, reports, logs, pmVars, jobVars, auxVars>>

\* the error message process_documents_pipeline's gather raises for document d
DocError(d) ==
    IF stage[d] = NoStages THEN ErrorOf("ocr") ELSE FirstError(stage[d])

\* process_documents_pipeline is resumed by its gather (line 168) with the
\* exception of a document task that failed
PipelineRaise ==
    /\ ppc = "gather"
    /\ \E d \in DocIds :
        /\ dpc[d] = "failed"
        /\ perror' = DocError(d)
    /\ ppc' = "raised"
    /\ UNCHANGED <<docs, maxConcurrentTasks, semValue, dpc, stage, innerSem, events,
                   ocrCalls, finishOrder, nFailures, reports, logs, pmVars, jobVars, auxVars>>

\* process_documents_pipeline is resumed with all the results (lines 169-173):
\* reports and logs are built, the aggregator is called and returns or raises
PipelineReturn ==
    /\ ppc = "gather"
    /\ \A d \in DocIds : dpc[d] = "done"
    /\ LET res == GatherResults(finishOrder) IN
       \E aggregated \in BOOLEAN :
        IF aggregated
        THEN /\ ppc' = "returned"
             /\ reports' = [i \in DOMAIN res |-> [documentId |-> docs[res[i]].id]]
             /\ logs' = [i \in DOMAIN res |->
                           [document_id |-> docs[res[i]].id, events |-> events[res[i]]]]
             /\ UNCHANGED perror
        ELSE /\ ppc' = "raised"
             /\ perror' = "aggregator failed"
             /\ UNCHANGED <<reports, logs>>
    /\ UNCHANGED <<docs, maxConcurrentTasks, semValue, dpc, stage, innerSem, events,
                   ocrCalls, finishOrder, nFailures, pmVars, jobVars, auxVars>>

\* ------------------------------------------------------- POST /orchestrate
\* an optional field of the request that was left out (None)
Absent == [kind |-> "none", raw |-> FALSE]

\* a DocumentIn or a Document of the request: the kind its content has and
\* whether it carries bytes
Payload(kind, raw) == [kind |-> kind, raw |-> raw]

\* a validator that insists on an upload
CheckPayloadUploadOnly(entry) == entry.upload # Absent

\* PipelineDocument._check_payload: the entry is refused when it has neither
\* an upload nor a document (a model instance is always truthy)
CheckPayload(entry) == ~(entry.upload = Absent /\ entry.document = Absent)

\* the entries the requests are made of
RequestEntries ==
    { [upload |-> Payload("PDF", TRUE), document |-> Absent],
      [upload |-> Payload("PDF", FALSE), document |-> Absent],
      [upload |-> Payload("NFE_XML", TRUE), document |-> Absent],
      [upload |-> Payload("UNKNOWN", TRUE), document |-> Absent],
      [upload |-> Absent, document |-> Payload("PDF", FALSE)],
      [upload |-> Absent, document |-> Payload("IMAGE", TRUE)],
      [upload |-> Payload("IMAGE", TRUE), document |-> Payload("NFE_XML", FALSE)],
      [upload |-> Absent, document |-> Absent] }

\* the lengths of payload.documents
RequestSizes == {0, 1, 2}

Requests == UNION {[1..n -> RequestEntries] : n \in RequestSizes}

\* _decode_document_input lines 122-124: a file no parser takes is refused
DecodeFails(entry) == entry.upload # Absent /\ entry.upload.kind = "UNKNOWN"

\* _run_extractor line 141: the upload is a PDF or an image with content
ExtractorRuns(entry) ==
    /\ entry.upload # Absent
    /\ entry.upload.kind \in {"PDF", "IMAGE"}
    /\ entry.upload.raw

\* Document.dict_for_agent: raw is declared with exclude=True, the dump
\* leaves it out
DictForAgent(document) == [kind |-> document.kind, raw |-> FALSE]

\* orchestrate lines 239-246: the document an entry contributes to the batch
AgentDocument(entry, i) ==
    IF entry.upload # Absent
    THEN [id |-> i, kind |-> entry.upload.kind]
    ELSE LET doc == DictForAgent(entry.document) IN
         [id |-> i,
          kind |-> IF doc.kind \in {"PDF", "IMAGE"} /\ ~doc.raw
                   THEN doc.kind \o "_STRUCTURED"
                   ELSE doc.kind]

\* the first entry whose upload cannot be decoded, 0 when there is none
FirstDecodeFailure(req) ==
    IF \E i \in DOMAIN req : DecodeFails(req[i])
    THEN CHOOSE i \in DOMAIN req :
            DecodeFails(req[i]) /\ \A k \in 1..(i - 1) : ~DecodeFails(req[k])
    ELSE 0

\* the body of a request arrives and is validated against OrchestratorRequest
ReceiveRequest(req, mode) ==
    /\ opc = "none"
    /\ oreq' = req
    /\ oasync' = mode
    /\ opc' = IF \A i \in DOMAIN req : CheckPayload(req[i]) THEN "validated" ELSE "invalid"
    /\ UNCHANGED <<itens, regime, destinatario, computed, pmVars, pipeVars, jobVars>>

\* orchestrate from its first line to its first suspension.  The loop over the
\* entries runs without one (run_ocr has no await): it ends early at the first
\* upload that is refused (u) or whose extraction raises (f).  Then either the
\* job is created and its task launched, or process_documents_pipeline is
\* called and runs to its gather
Orchestrate ==
    /\ opc = "validated"
    /\ LET u == FirstDecodeFailure(oreq)
           last == IF u = 0 THEN Len(oreq) ELSE u - 1 IN
       \E f \in 0..last :
        /\ f # 0 => ExtractorRuns(oreq[f]) /\ FALSE \in Outcomes(1)
        /\ LET n == IF f # 0 THEN f - 1 ELSE last
               through == IF f # 0 THEN f ELSE last
               ok == f = 0 /\ u = 0
               j == JobSeq[1] IN
            /\ docs' = [i \in 1..n |-> AgentDocument(oreq[i], i)]
            /\ ocrCalls' = [i \in DOMAIN oreq |->
                              IF i <= through /\ ExtractorRuns(oreq[i]) THEN 1 ELSE 0]
            /\ nFailures' = nFailures + (IF f # 0 THEN 1 ELSE 0)
            /\ dpc' = [d \in 1..n |-> IF ok /\ ~oasync THEN "new" ELSE "none"]
            /\ stage' = [d \in 1..n |-> NoStages]
            /\ innerSem' = [d \in 1..n |-> InnerCapacity]
            /\ events' = [d \in 1..n |-> <<>>]
            /\ IF ok /\ ~oasync
               THEN /\ ppc' = "gather"
                    /\ semValue' = ASYNC_BATCH_SIZE
               ELSE UNCHANGED <<ppc, semValue>>
            /\ IF ok /\ oasync
               THEN /\ queues' = DictSet(queues, j, <<>>)
                    /\ history' = DictSet(history, j, <<>>)
                    /\ closed' = closed \ {j}
                    /\ results' = StaleResultDropped(results, j)
                    /\ jpc' = [jpc EXCEPT ![j] = "launched"]
                    /\ jdocs' = [jdocs EXCEPT ![j] = n]
               ELSE UNCHANGED <<queues, history, closed, results, jpc, jdocs>>
            /\ opc' = IF ~ok THEN "failed"
                      ELSE IF oasync THEN "accepted"
                      ELSE "pipeline"
    /\ UNCHANGED <<maxConcurrentTasks, finishOrder, perror, reports, logs,
                   chan, hstate, hjob, ready, nCalls,
                   oreq, oasync, itens, regime, destinatario, computed>>

\* orchestrate is resumed with the result of the pipeline, or with its exception
OrchestrateFinish ==
    /\ opc = "pipeline"
    /\ ppc \in {"returned", "raised"}
    /\ opc' = IF ppc = "returned" THEN "completed" ELSE "failed"
    /\ UNCHANGED <<oreq, oasync, itens, regime, destinatario, computed, pmVars, pipeVars, jobVars>>

\* ------------------------------------------- agents/accountant_agent.py
\* Money is counted in thousandths of the currency unit (an item of 0.005 is
\* 5), rounded amounts in cents, rates in ten-thousandths.

\* REGIMES, lines 27-61
REGIMES ==
    [simples_nacional |->
        [aliquotas |-> [icms |-> 300, pis |-> 65, cofins |-> 300, iss |-> 200, iva |-> 1200],
         iss_cidades |-> [SP |-> 200, RJ |-> 300, BH |-> 250]],
     lucro_presumido |->
        [aliquotas |-> [icms |-> 1800, pis |-> 165, cofins |-> 760, iss |-> 500, iva |-> 2500],
         iss_cidades |-> [SP |-> 500, RJ |-> 500, BH |-> 450]],
     lucro_real |->
        [aliquotas |-> [icms |-> 1800, pis |-> 165, cofins |-> 760, iss |-> 350, iva |-> 2800],
         iss_cidades |-> [SP |-> 350, RJ |-> 400, BH |-> 320]]]

TaxNames == <<"icms", "pis", "cofins", "iss", "iva">>

\* str.lower() and str.upper() on the names the documents carry
Lower(s) ==
    CASE s = "LUCRO_REAL" -> "lucro_real"
      [] s = "Lucro_Presumido" -> "lucro_presumido"
      [] OTHER -> s

Upper(s) ==
    CASE s = "rj" -> "RJ"
      [] s = "Campinas" -> "CAMPINAS"
      [] s = "sp" -> "SP"
      [] OTHER -> s

\* _as_decimal: the value of an item, 0 for one that is missing or not a number
AsDecimal(item) == IF item.numeric THEN item.valor ELSE 0

\* _total_items
RECURSIVE TotalItems(_)
TotalItems(its) ==
    IF its = <<>> THEN 0 ELSE AsDecimal(Head(its)) + TotalItems(Tail(its))

\* quantize(..., rounding=ROUND_HALF_UP) of n/d to a whole number: ties go away
\* from zero
RoundHalfUp(n, d) ==
    IF n >= 0 THEN (2 * n + d) \div (2 * d) ELSE 0 - ((2 * (0 - n) + d) \div (2 * d))

\* _get_regime: the configuration named by the document, simples_nacional when
\* the name is not known
GetRegime(name) ==
    IF Lower(name) \in DOMAIN REGIMES THEN REGIMES[Lower(name)]
    ELSE REGIMES["simples_nacional"]

\* _resolve_iss_rate
ResolveIssRate(config, dest) ==
    IF Upper(dest.municipio) \in DOMAIN config.iss_cidades
    THEN config.iss_cidades[Upper(dest.municipio)]
    ELSE IF Upper(dest.uf) \in DOMAIN config.iss_cidades
    THEN config.iss_cidades[Upper(dest.uf)]
    ELSE config.aliquotas["iss"]

\* _compute_taxes: each tax is the total times its rate, rounded to cents
ComputeTaxes(its, config, dest) ==
    [t \in Range(TaxNames) |->
        RoundHalfUp(TotalItems(its)
                        * (IF t = "iss" THEN ResolveIssRate(config, dest)
                           ELSE config.aliquotas[t]),
                    100000)]

\* _build_entries: the goods entry, then one entry per tax that is not zero
BuildEntries(total, taxes) ==
    <<[historico |-> "mercadorias", valor |-> RoundHalfUp(total, 10)]>>
    \o SelectSeq([i \in DOMAIN TaxNames |->
                     [historico |-> TaxNames[i], valor |-> taxes[TaxNames[i]]]],
                 LAMBDA e : e.valor # 0)

RECURSIVE SumValor(_)
SumValor(entries) ==
    IF entries = <<>> THEN 0 ELSE Head(entries).valor + SumValor(Tail(entries))

\* a check of the balance alone
BalanceCheckBalanceOnly(entries) == SumValor(entries) - SumValor(entries) # 0

\* _balance_check raises: an entry is not positive, or debit and credit differ
BalanceCheck(entries) ==
    \/ \E i \in DOMAIN entries : entries[i].valor <= 0
    \/ SumValor(entries) - SumValor(entries) # 0

\* the item values the documents are made of: amounts around the rounding
\* step, negative ones, and a value that is not a number
ItemValues ==
    { [numeric |-> TRUE, valor |-> v] : v \in {0 - 1000, 0 - 5, 0 - 4, 0, 4, 5, 1000, 50000} }
    \cup { [numeric |-> FALSE, valor |-> 1000] }

RegimeNames == {"simples_nacional", "Lucro_Presumido", "LUCRO_REAL", "mei"}

Destinations ==
    { [municipio |-> "", uf |-> ""],
      [municipio |-> "rj", uf |-> ""],
      [municipio |-> "Campinas", uf |-> "sp"] }

\* compute(doc) run by _run_stage("contabilidade", ...): the stage is failed
\* when compute raises, completed when it returns
Compute ==
    /\ computed = "none"
    /\ LET config == GetRegime(regime)
           total == TotalItems(itens)
           taxes == ComputeTaxes(itens, config, destinatario)
           entries == BuildEntries(total, taxes) IN
       computed' = RunStageEntry("contabilidade", ~BalanceCheck(entries)).status
    /\ UNCHANGED <<oreq, oasync, opc, itens, regime, destinatario,
                   pmVars, pipeVars, jobVars>>

\* ------------------------------------------------------------ specification
EmptyDict == [x \in {} |-> <<>>]

PMInit ==
    /\ queues = EmptyDict
    /\ results = EmptyDict
    /\ history = EmptyDict
    /\ closed = {}
    /\ chan = [h \in Handlers |-> <<>>]
    /\ hstate = [h \in Handlers |-> "idle"]
    /\ hjob = [h \in Handlers |-> ""]
    /\ ready = <<>>
    /\ nCalls = 0

\* no batch is being processed
PipeIdle ==
    /\ docs = <<>>
    /\ maxConcurrentTasks = DefaultMaxConcurrentTasks
    /\ semValue = 0
    /\ dpc = <<>>
    /\ stage = <<>>
    /\ innerSem = <<>>
    /\ events = <<>>
    /\ ocrCalls = <<>>
    /\ finishOrder = <<>>
    /\ nFailures = 0
    /\ ppc = "idle"
    /\ perror = ""
    /\ reports = <<>>
    /\ logs = <<>>

\* no job was created through the job API
JobIdle ==
    /\ jpc = [j \in JobIds |-> "none"]
    /\ jdocs = [j \in JobIds |-> 0]

\* no /orchestrate request is being served and compute is not running
AuxIdle ==
    /\ oreq = <<>>
    /\ oasync = FALSE
    /\ opc = "none"
    /\ itens = <<>>
    /\ regime = ""
    /\ destinatario = [municipio |-> "", uf |-> ""]
    /\ computed = "none"

Init == PMInit /\ PipeIdle /\ JobIdle /\ AuxIdle

Next ==
    \/ \E j \in Jobs : CreateJob(j)
    \/ \E j \in Jobs : Publish(j)
    \/ \E j \in Jobs, r \in OutcomeStatus : SetResult(j, r)
    \/ \E j \in Jobs : Finalize(j)
    \/ \E j \in Jobs : DiscardJob(j)
    \/ \E j \in Jobs : Forget(j)
    \/ RunPuts
    \/ \E h \in Handlers, j \in Jobs : StreamPipelineJob(h, j)
    \/ \E h \in Handlers : GeneratorEnd(h)
    \/ \E h \in Handlers : ClientDisconnect(h)

Spec == Init /\ [][Next]_vars

\* the kinds met in one batch: images among structured documents, or PDFs
BatchKinds == {{"IMAGE", "NFE_XML"}, {"PDF"}}

\* the batches of at most MaxDocs documents, document i carrying id i
Batches ==
    UNION {[1..n -> [id : 1..n, kind : ks]] : n \in 0..MaxDocs, ks \in BatchKinds}

\* a batch is about to be processed, under any setting of MAX_CONCURRENT_TASKS
PipelineInit ==
    /\ PMInit
    /\ docs \in {b \in Batches : \A i \in DOMAIN b : b[i].id = i}
    /\ maxConcurrentTasks \in {0, MaxTasksSetting}
    /\ semValue = 0
    /\ dpc = [d \in DocIds |-> "none"]
    /\ stage = [d \in DocIds |-> NoStages]
    /\ innerSem = [d \in DocIds |-> InnerCapacity]
    /\ events = [d \in DocIds |-> <<>>]
    /\ ocrCalls = [d \in DocIds |-> 0]
    /\ finishOrder = <<>>
    /\ nFailures = 0
    /\ ppc = "idle"
    /\ perror = ""
    /\ reports = <<>>
    /\ logs = <<>>
    /\ JobIdle
    /\ AuxIdle

PipelineNext ==
    \/ PipelineStart
    \/ \E d \in DocIds : DocStart(d)
    \/ \E d \in DocIds : StageTasksRun(d)
    \/ \E d \in DocIds : ClassifyFinish(d)
    \/ \E d \in DocIds : DocResume(d)
    \/ PipelineRaise
    \/ PipelineReturn

PipelineSpec == PipelineInit /\ [][PipelineNext]_vars

\* the event loop runs a task while one is ready and the collaborators return:
\* the pipeline takes a step as long as it has one to take
PipelineFairness == WF_vars(PipelineNext)

\* the batches whose documents all take the same way through the extraction
LiveBatchKinds == {{"NFE_XML"}, {"PDF"}}

PipelineLiveInit ==
    /\ PipelineInit
    /\ \E ks \in LiveBatchKinds : \A i \in DOMAIN docs : docs[i].kind \in ks

PipelineLiveSpec == PipelineLiveInit /\ [][PipelineNext]_vars /\ PipelineFairness

\* the job API: jobs are created and run, clients stream them
JobInit == PMInit /\ PipeIdle /\ JobIdle /\ AuxIdle

JobNext ==
    \/ \E i \in DOMAIN JobSeq, n \in JobBatchSizes : CreatePipelineJob(i, n)
    \/ \E j \in JobIds : RunPipelineJobStart(j)
    \/ \E j \in JobIds : RunPipelineJobCall(j)
    \/ \E j \in JobIds : RunPipelineJobFinish(j)
    \/ RunPuts
    \/ \E h \in Handlers, j \in JobIds : StreamPipelineJob(h, j)
    \/ \E h \in Handlers : GeneratorEnd(h)
    \/ \E h \in Handlers : ClientDisconnect(h)

JobSpec == JobInit /\ [][JobNext]_vars

\* the event loop runs every task that is ready: the scheduled puts and the
\* job tasks; requests and disconnections are up to the clients
JobFairness ==
    /\ WF_vars(RunPuts)
    /\ \A j \in JobIds :
        /\ WF_vars(RunPipelineJobStart(j))
        /\ WF_vars(RunPipelineJobCall(j))
        /\ WF_vars(RunPipelineJobFinish(j))

JobLiveSpec == JobSpec /\ JobFairness

\* one /orchestrate request is served, in either mode
OrchestrateInit == PMInit /\ PipeIdle /\ JobIdle /\ AuxIdle

OrchestrateNext ==
    \/ \E req \in Requests, mode \in BOOLEAN : ReceiveRequest(req, mode)
    \/ Orchestrate
    \/ \E d \in DocIds : DocStart(d)
    \/ \E d \in DocIds : StageTasksRun(d)
    \/ \E d \in DocIds : ClassifyFinish(d)
    \/ \E d \in DocIds : DocResume(d)
    \/ PipelineRaise
    \/ PipelineReturn
    \/ OrchestrateFinish
    \/ \E j \in JobIds : RunPipelineJobStart(j)

OrchestrateSpec == OrchestrateInit /\ [][OrchestrateNext]_vars

\* compute is called on a document, for every list of items, regime and
\* destination
ComputeInit ==
    /\ PMInit /\ PipeIdle /\ JobIdle
    /\ oreq = <<>> /\ oasync = FALSE /\ opc = "none"
    /\ itens \in UNION {[1..n -> ItemValues] : n \in 0..MaxItens}
    /\ regime \in RegimeNames
    /\ destinatario \in Destinations
    /\ computed = "none"

ComputeNext == Compute

ComputeSpec == ComputeInit /\ [][ComputeNext]_vars

\* -------------------------------------------------------------- properties
Count(x, s) == Cardinality({i \in DOMAIN s : s[i] = x})

Last(s) == s[Len(s)]

IsPrefix(s, t) == Len(s) <= Len(t) /\ SubSeq(t, 1, Len(s)) = s

\* the channels currently registered for job j
Registered(j) == Range(DictGet(queues, j, <<>>))

\* how many scheduled puts of item x on queue q have not run yet
PendingCount(q, x) ==
    Cardinality({i \in DOMAIN ready : q \in Range(ready[i].qs) /\ ready[i].item = x})

\* queue q has a scheduled put, or a marker still to be scheduled behind one
HasPending(q) ==
    \E i \in DOMAIN ready : q \in Range(ready[i].qs)

\* the events on a channel, the stream-end markers left out
Events(s) == SelectSeq(s, LAMBDA x : x # None)

\* C1: every event in a job's history is on every registered channel of the job
\* exactly once, counting the puts that are scheduled and not yet run; nothing
\* else is on the channel
C1_ExactlyOnce ==
    \A j \in DOMAIN queues : \A q \in Registered(j) :
        /\ \A e \in Range(history[j]) :
              Count(e, chan[q]) + PendingCount(q, e) = Count(e, history[j])
        /\ \A e \in Range(Events(chan[q])) : e \in Range(history[j])

\* a subscriber that joined between two publishes: the first event was sent to
\* channel 1 alone and replayed to channel 2, the second is sent to both
C1_Witness ==
    /\ Len(ready) = 2
    /\ ready[1].qs = <<1>> /\ ready[1].item.type = "stage"
    /\ ready[2].qs = <<1, 2>> /\ ready[2].item.type = "stage"
    /\ ready[1].item.seq < ready[2].item.seq
    /\ chan[1] = <<>>
    /\ chan[2] = <<ready[1].item>>

\* C2: the events on a registered channel are a prefix of the job's history:
\* they appear in publish order, replayed and live events alike
C2_OrderPreserved ==
    \A j \in DOMAIN queues : \A q \in Registered(j) :
        IsPrefix(Events(chan[q]), history[j])

\* both channels hold both events, one of them got the first by replay
C2_Witness ==
    /\ ready = <<>>
    /\ \E j \in DOMAIN queues :
        /\ Registered(j) = {1, 2}
        /\ Len(history[j]) = 2
        /\ chan[1] = history[j]
        /\ chan[2] = history[j]
        /\ history[j][1].type = "stage" /\ history[j][2].type = "stage"
        /\ history[j][1].seq < history[j][2].seq

\* C3: a channel holds at most one stream-end marker, the marker comes right
\* after the closed event and nothing follows it; and a registered channel of a
\* closed job with no put outstanding has received the marker
C3_StreamTermination ==
    \A h \in Handlers :
        /\ Count(None, chan[h]) <= 1
        /\ None \in Range(chan[h]) =>
              /\ Last(chan[h]) = None
              /\ Len(chan[h]) >= 2
              /\ chan[h][Len(chan[h]) - 1] = ClosingEvent(hjob[h])
        /\ \A j \in closed :
              (h \in Registered(j) /\ ~HasPending(h)) => None \in Range(chan[h])

\* C4: the history of a closed job ends with the closed event
C4_ClosedAcceptsNothing ==
    \A j \in closed \cap DOMAIN history :
        /\ history[j] # <<>>
        /\ Last(history[j]) = ClosingEvent(j)

\* C5: a history holds at most one closed event and a channel at most one
\* closed event and one stream-end marker
C5_FinalizeIdempotent ==
    /\ \A j \in DOMAIN history : Count(ClosingEvent(j), history[j]) <= 1
    /\ \A h \in Handlers :
        /\ Count(None, chan[h]) <= 1
        /\ Count(ClosingEvent(hjob[h]), chan[h]) <= 1

\* C6: a stream request for an absent job gets 404 and changes nothing in the
\* registry; a request for a job that exists, open or closed, gets a channel
\* that is registered for the job
C6_SubscribeNoneIffAbsent ==
    [][\A h \in Handlers :
        (hstate[h] = "idle" /\ hstate'[h] # "idle") =>
            IF hjob'[h] \in DOMAIN history
            THEN /\ hstate'[h] = "streaming"
                 /\ h \in Range(queues'[hjob'[h]])
            ELSE /\ hstate'[h] = "404"
                 /\ UNCHANGED <<queues, results, history, closed, chan, ready>>]_vars

\* one request was answered with a stream, a later one for the same id, after
\* the job was purged, with 404
C6_Witness ==
    /\ hstate[1] \in {"streaming", "done"}
    /\ hstate[2] = "404"
    /\ hjob[1] = hjob[2]

\* the documents whose task holds a slot of the batch semaphore
Holders == {d \in DocIds : dpc[d] = "joined"}

\* the documents none of whose stages failed
Survivors ==
    {d \in DocIds : \A i \in DOMAIN events[d] : events[d][i].status # "failed"}

\* the entries of document d's log for the stages in names
EntriesOf(d, names) == {i \in DOMAIN events[d] : events[d][i].stage \in names}

\* C7: a failing stage of a document does not make process_documents_pipeline
\* raise: it raises only for an error outside the documents, and what it
\* returns has one report for each document with no failing stage
C7_FailureIsolation ==
    /\ ppc = "raised" => \A d \in DocIds : dpc[d] = "done"
    /\ ppc = "returned" => Len(reports) = Cardinality(Survivors)

\* C8: the report and the log at index i of the result belong to the input
\* document at index i
C8_ReportOrder ==
    ppc = "returned" =>
        /\ Len(reports) = Len(docs)
        /\ Len(logs) = Len(docs)
        /\ \A i \in DocIds :
            /\ reports[i].documentId = docs[i].id
            /\ logs[i].document_id = docs[i].id
            /\ logs[i].events = events[i]

\* a batch of three was returned whose first document finished last
C8_Witness ==
    /\ ppc = "returned"
    /\ Len(docs) = 3
    /\ finishOrder = <<2, 3, 1>>

\* C9: at most K = max(1, MAX_CONCURRENT_TASKS) documents hold a batch slot
C9_ConcurrencyBound ==
    Cardinality(Holders) <= (IF maxConcurrentTasks > 1 THEN maxConcurrentTasks ELSE 1)

\* K = 2: two documents hold the slots and a third is waiting for one
C9_Witness ==
    /\ maxConcurrentTasks = 2
    /\ Cardinality(Holders) = 2
    /\ \E d \in DocIds : dpc[d] = "new"

\* C10: a document that was started has exactly one ocr entry in its log; if
\* its kind is PDF or IMAGE run_ocr was called once for it and the entry is
\* completed or failed, otherwise run_ocr was not called and the entry is
\* skipped with reason document-type.  A returned batch of three with one IMAGE
\* and two documents of another kind than PDF has 1 call of run_ocr, 3 ocr
\* entries and 9 entries of the other stages
C10_ConditionalExtraction ==
    /\ \A d \in DocIds :
        IF dpc[d] \in {"none", "new"}
        THEN ocrCalls[d] = 0 /\ events[d] = <<>>
        ELSE /\ Cardinality(EntriesOf(d, {"ocr"})) = 1
             /\ events[d][1].stage = "ocr"
             /\ IF docs[d].kind \in {"PDF", "IMAGE"}
                THEN /\ ocrCalls[d] = 1
                     /\ events[d][1].status \in {"completed", "failed"}
                ELSE /\ ocrCalls[d] = 0
                     /\ events[d][1].status = "skipped"
                     /\ events[d][1].reason = "document-type"
    /\ ( /\ ppc = "returned"
         /\ Len(docs) = 3
         /\ Cardinality({d \in DocIds : docs[d].kind = "IMAGE"}) = 1
         /\ \A d \in DocIds : docs[d].kind # "PDF" )
       => /\ Cardinality({d \in DocIds : ocrCalls[d] = 1}) = 1
          /\ \A d \in DocIds : ocrCalls[d] <= 1
          /\ Cardinality({<<d, i>> \in DocIds \X (1..4) :
                            i \in EntriesOf(d, {"ocr"})}) = 3
          /\ Cardinality({<<d, i>> \in DocIds \X (1..4) :
                            i \in EntriesOf(d, StageNames)}) = 9

\* the batch NFE_XML, IMAGE, NFE_XML was processed and returned
C10_Witness ==
    /\ ppc = "returned"
    /\ Len(docs) = 3
    /\ docs[1].kind = "NFE_XML" /\ docs[2].kind = "IMAGE" /\ docs[3].kind = "NFE_XML"
    /\ events[2][1] = StageEntry("ocr", "completed", "", "")
    /\ events[1][1] = SkippedEntry

\* how many events the task of job j has published in each of its positions
PublishedBy(pc) ==
    CASE pc = "launched" -> 0
      [] pc = "started" -> 1
      [] pc \in OutcomeStatus -> 2
      [] OTHER -> 3

\* C11: the history of a job run by _run_pipeline_job is, in this order, the
\* started event, one event with status completed or failed, published once
\* the call of the pipeline has returned or raised, and the closed event; the
\* job is closed exactly when its history has all three
C11_JobEventProtocol ==
    \A j \in JobIds : jpc[j] # "none" =>
        /\ Len(history[j]) = PublishedBy(jpc[j])
        /\ \A i \in DOMAIN history[j] :
              /\ history[j][i].type = "job"
              /\ history[j][i].job = j
              /\ i = 1 => history[j][i].status = "started"
              /\ i = 2 => history[j][i].status \in OutcomeStatus
              /\ i = 3 => history[j][i].status = "closed"
        /\ j \in closed <=> jpc[j] = "done"

\* a job ran to its end while a client was streaming it: the client has read
\* the three events and the stream-end marker
C11_Witness ==
    \E j \in JobIds :
        /\ jpc[j] = "done"
        /\ Len(history[j]) = 3
        /\ hjob[1] = j
        /\ chan[1] = history[j] \o <<None>>

\* the statuses of the job events in the history of job j
JobStatuses(j) ==
    {history[j][i].status : i \in {k \in DOMAIN history[j] : history[j][k].type = "job"}}

\* C12: a job that has run to its end with no collaborator and no aggregator
\* call failing has published a completed event and no failed event, and its
\* cached result has status completed
C12_SuccessfulJobOutcome ==
    \A j \in JobIds :
        (jpc[j] = "done" /\ nFailures = 0 /\ perror = "") =>
            /\ "completed" \in JobStatuses(j)
            /\ "failed" \notin JobStatuses(j)
            /\ j \in DOMAIN results /\ results[j].status = "completed"

\* C13: every job created through the job API is eventually finalized, and
\* every channel registered on it eventually holds the stream-end marker
\* (unless its client has left before)
C13_GuaranteedFinalization ==
    /\ \A j \in JobIds : (jpc[j] # "none") ~> (j \in closed)
    /\ \A h \in Handlers :
          (hstate[h] = "streaming") ~>
              (None \in Range(chan[h]) \/ h \notin Registered(hjob[h]))

\* one client subscribed before the job task ran and got the events live, the
\* other subscribed after the job was closed and got them replayed; both hold
\* the marker
C13_Witness ==
    \E j \in JobIds :
        /\ j \in closed
        /\ hjob[1] = j /\ hjob[2] = j
        /\ hstate[1] = "streaming" /\ hstate[2] = "streaming"
        /\ ready = <<>>
        /\ Last(chan[1]) = None /\ Len(chan[1]) = 4
        /\ chan[2] = chan[1]

\* C14: a document whose task has failed has no stage that is still to run or
\* still running: the failure of a stage reaches the document only after all
\* three stages have recorded their terminal event
C14_WaitForAllJoin ==
    \A d \in DocIds :
        dpc[d] = "failed" =>
            \A s \in StageNames : stage[d][s] \notin {"scheduled", "running"}

StageEventsOf(j) == {i \in DOMAIN history[j] : history[j][i].type = "stage"}

\* C16: the history of a job that has run to its end holds one stage event for
\* each stage (the extraction and the three others) of each of its documents,
\* all of them after the started event and before the outcome event
C16_StageEventsForwarded ==
    \A j \in JobIds :
        jpc[j] = "done" =>
            /\ Cardinality(StageEventsOf(j)) = (Cardinality(StageNames) + 1) * jdocs[j]
            /\ \A i \in StageEventsOf(j) : 1 < i /\ i < Len(history[j]) - 1

\* C17: when the audit of a document has raised and process_documents_pipeline
\* has ended, it has returned; the logs it returned hold, for that document, a
\* failed auditoria entry with the message, and the reports leave the
\* document out
C17_FailuresAsData ==
    \A d \in DocIds :
        (stage[d]["auditoria"] = "failed" /\ ppc \in {"returned", "raised"}) =>
            /\ ppc = "returned"
            /\ \E i \in DOMAIN logs :
                  /\ logs[i].document_id = docs[d].id
                  /\ StageEntry("auditoria", "failed", "auditoria failed", "")
                        \in Range(logs[i].events)
            /\ \A i \in DOMAIN reports : reports[i].documentId # docs[d].id

\* C18: the discard of a channel, which ends every stream, takes that channel
\* out of its job's subscriber list and changes nothing else: the histories,
\* the closed flags, the cached results, the other channels and their order
C18_DiscardChannelOnly ==
    [][\A h \in Handlers :
        (hstate[h] = "streaming" /\ hstate'[h] = "done") =>
            /\ UNCHANGED <<history, closed, results, chan, ready>>
            /\ DOMAIN queues' = DOMAIN queues
            /\ \A j \in DOMAIN queues :
                  queues'[j] = IF j = hjob[h]
                               THEN SelectSeq(queues[j], LAMBDA q : q # h)
                               ELSE queues[j]]_vars

\* the job is closed, both its subscribers have been discarded, and its
\* cached result and its history are still there
C18_Witness ==
    \E j \in closed :
        /\ hstate[1] = "done" /\ hstate[2] = "done"
        /\ hjob[1] = j /\ hjob[2] = j
        /\ None \in Range(chan[1])
        /\ j \in DOMAIN queues /\ queues[j] = <<>>
        /\ j \in DOMAIN results
        /\ j \in DOMAIN history /\ history[j] # <<>>

\* C19: a step of discard(job) with no channel leaves the cached results as
\* they are: get_result(job) gives the same value before and after it
C19_DiscardKeepsResult ==
    [][\A j \in Jobs :
        DiscardJob(j) => DictGet(results', j, "none") = DictGet(results, j, "none")]_vars

\* C20: after a step of create_job(id) the job has an empty history and an
\* empty subscriber list, is not closed and has no cached result, whatever
\* the registry held for that id before
C20_CreateJobFresh ==
    [][\A j \in Jobs :
        CreateJob(j) =>
            /\ j \in DOMAIN history' /\ history'[j] = <<>>
            /\ j \in DOMAIN queues' /\ queues'[j] = <<>>
            /\ j \notin closed'
            /\ j \notin DOMAIN results']_vars

\* an id was created again after its earlier job had been closed under the
\* eyes of a subscriber: the new job is open, with nothing in its history, no
\* subscriber and no cached result
C20_Witness ==
    \E j \in Jobs :
        /\ hjob[1] = j
        /\ ClosingEvent(j) \in Range(chan[1])
        /\ j \in DOMAIN history /\ history[j] = <<>>
        /\ j \in DOMAIN queues /\ queues[j] = <<>>
        /\ j \notin closed
        /\ j \notin DOMAIN results

C22_PublicationNeverBlocks ==
    ready # <<>> => ENABLED RunPuts

\* a subscriber has an event it has not read on its channel while finalize's
\* closed event is about to be put on that channel and on another one
C22_Witness ==
    /\ hstate[1] = "streaming" /\ hstate[2] = "streaming"
    /\ Len(chan[1]) >= 1 /\ chan[1][1].type = "stage"
    /\ ready # <<>>
    /\ ready[1].qs = <<1, 2>>
    /\ ready[1].item.status = "closed"

\* C23: a pipeline document entry must carry a payload: a request is refused
\* by validation exactly when one of its entries has neither an upload nor a
\* document, and an entry with at least one of them is accepted
C23_PayloadRequired ==
    opc # "none" =>
        (opc = "invalid" <=>
            \E i \in DOMAIN oreq :
                oreq[i].upload = Absent /\ oreq[i].document = Absent)

C23_Witness ==
    /\ opc = "invalid"
    /\ Len(oreq) = 2
    /\ oreq[1].upload = Absent /\ oreq[1].document # Absent
    /\ oreq[2].upload = Absent /\ oreq[2].document = Absent

\* C23, the accepted side: a request whose entries carry only a document, or
\* only an upload, or both, passes validation
C23_WitnessAccepted ==
    /\ opc = "validated"
    /\ Len(oreq) = 2
    /\ oreq[1].upload = Absent /\ oreq[1].document # Absent
    /\ oreq[2].upload # Absent /\ oreq[2].document # Absent

\* C24: every mutation of job state in the registry (history append, change of
\* the subscriber set, change of the closed flag, purge of a job) is made by a
\* method that holds the registry lock while it makes it
C24_MutationsUnderLock ==
    [][\A m \in RegistryMethods :
          (StepOf(m) /\ <<queues, history, closed>>' # <<queues, history, closed>>)
              => m \in LockedMethods]_vars

\* C24, the part that holds: the puts of publish and finalize are scheduled by
\* steps that have left the lock, and run on their own (no registry state
\* changes while a gather of puts runs)
C24_PutsOutsideLock ==
    [][RunPuts => UNCHANGED <<queues, history, closed, results>>]_vars

\* C25: the gates are always given back and the pipeline cannot deadlock: every
\* document of the batch gets a batch slot, process_documents_pipeline
\* terminates, and in the end every slot of the batch semaphore and of each
\* document's stage semaphore is free again, for batches larger than K too
C25_GatesReleased ==
    /\ <>(ppc \in {"returned", "raised"})
    /\ <>[](/\ ppc # "idle"
            /\ \A d \in DocIds : dpc[d] \in {"done", "failed"} /\ innerSem[d] = 3
            /\ semValue = (IF maxConcurrentTasks >= 1 THEN maxConcurrentTasks ELSE 1))

\* three documents went through one slot, one of them failing a stage, and the
\* slot is free again
C25_Witness ==
    /\ Len(docs) = 3
    /\ maxConcurrentTasks = 0
    /\ ppc = "raised"
    /\ \E d \in DocIds : dpc[d] = "failed"
    /\ \A d \in DocIds : dpc[d] \in {"done", "failed"} /\ innerSem[d] = 3
    /\ semValue = 1

\* C26: stage work stays inside the batch slot: a stage call that is yet to
\* settle belongs to a document whose task holds a slot of the batch semaphore,
\* so at most K documents have stage work in flight
C26_StageWorkInsideSlot ==
    /\ \A d \in DocIds :
          (\E s \in StageNames : stage[d][s] \in {"scheduled", "running"})
              => dpc[d] = "joined"
    /\ ppc # "idle" =>
          Cardinality({d \in DocIds : \E s \in StageNames : stage[d][s] = "running"})
              <= (IF maxConcurrentTasks >= 1 THEN maxConcurrentTasks ELSE 1)

\* C27: no subscriber is orphaned: a channel that subscribe handed out for a
\* job that was finalized since, and whose client is still reading, has
\* received the stream-end marker once the puts scheduled for it have run,
\* whichever registry calls came between the subscribe and the finalize
C27_NoOrphanedSubscriber ==
    \A h \in Handlers :
        (hstate[h] = "streaming" /\ hjob[h] \in closed /\ ~HasPending(h))
            => Count(None, chan[h]) >= 1

\* C28: the completion signal implies a result that can be polled: whenever the
\* history of a job run by _run_pipeline_job holds the closed event, get_result
\* returns a payload whose status is completed or failed, the status of the
\* job's outcome event in the history
C28_ClosedImpliesResult ==
    \A j \in JobIds :
        (j \in DOMAIN history /\ \E i \in DOMAIN history[j] : history[j][i].status = "closed")
            => /\ j \in DOMAIN results
               /\ results[j].status \in {"completed", "failed"}
               /\ \E k \in DOMAIN history[j] :
                     /\ history[j][k].type = "job"
                     /\ history[j][k].status = results[j].status

\* a subscriber of a job has read the stream to its end marker and polls
C28_Witness ==
    /\ jpc["j1"] = "done"
    /\ hstate[1] = "streaming" /\ hjob[1] = "j1"
    /\ Len(chan[1]) >= 2 /\ chan[1][Len(chan[1])] = None
    /\ chan[1][Len(chan[1]) - 1].status = "closed"
    /\ "j1" \in DOMAIN results
    /\ results["j1"].status = "failed"

\* C29: while one /orchestrate request is served, run_ocr is invoked at most
\* once for each submitted document, and not at all for a structured document
\* (an entry without upload)
C29_ExtractionOnce ==
    opc \notin {"none", "validated", "invalid"} =>
        \A i \in DOMAIN ocrCalls :
            /\ ocrCalls[i] <= 1
            /\ oreq[i].upload = Absent => ocrCalls[i] = 0

\* C29, the part that holds: a structured PDF or IMAGE document is re-tagged
\* and goes through the pipeline without extraction
C29_StructuredNotExtracted ==
    opc \notin {"none", "validated", "invalid"} =>
        \A i \in DOMAIN docs :
            oreq[i].upload = Absent =>
                /\ ocrCalls[i] = 0
                /\ oreq[i].document.kind \in {"PDF", "IMAGE"}
                      => docs[i].kind = oreq[i].document.kind \o "_STRUCTURED"

\* C30: the tax-computation stage fails exactly on non-positive totals: compute
\* raises when the item values sum to an amount that rounds to 0.00 or less
\* (0.004 rounds to 0.00, 0.005 to 0.01), which is the case of every document
\* without items, and returns when the rounded total is positive; the
\* contabilidade stage is failed in the first case, completed in the second
C30_FailsOnNonPositiveTotal ==
    computed # "none" =>
        /\ computed \in {"failed", "completed"}
        /\ computed = "failed" <=> TotalItems(itens) <= 4
        /\ itens = <<>> => computed = "failed"

\* a document whose items sum to 0.004 (the second is not a number and counts
\* for nothing): below half a cent, the stage fails
C30_Witness ==
    /\ computed = "failed"
    /\ Len(itens) = 2
    /\ itens[1].numeric /\ itens[1].valor = 4
    /\ ~itens[2].numeric

\* a freshly parsed PDF or IMAGE has no items
C30_WitnessNoItems == computed = "failed" /\ itens = <<>>

\* items summing to half a cent: the total rounds to 0.01, every tax to zero
C30_WitnessPositive ==
    /\ computed = "completed"
    /\ Len(itens) = 1 /\ itens[1].numeric /\ itens[1].valor = 5

====
